---- MODULE Spec2Model ----
(***************************************************************************)
(* Geofence geometry normalisation (the Mongoose pre-save hook), the       *)
(* containment evaluator (containsPoint / calculateDistance /              *)
(* pointInPolygon) and the geofence routes that use them.                  *)
(*                                                                         *)
(* Conventions of the model                                                *)
(*  - A JavaScript value that may be undefined is a sequence of length 0   *)
(*    (None) or 1 (Some(v)).                                               *)
(*  - Coordinates are whole degrees; a radius is a whole number of metres. *)
(*  - calculateDistance is tabulated: the metres the source's formula      *)
(*    yields for each pair of model points, rounded up to a whole metre,   *)
(*    so that for a whole-metre radius r the comparison distance <= r has  *)
(*    the truth value it has in the source.                                *)
(*  - `this.center` is truthy exactly when a center was stored.            *)
(*  - Cosmetic fields (description, colours, opacity, stroke weight)        *)
(*    take part in no guard and no derived value and are left out.         *)
(***************************************************************************)
EXTENDS Integers, Sequences, FiniteSets, TLC

VARIABLES
    store,      \* the Geofence collection: sequence of documents, _id = index
    resp,       \* the last HTTP response sent by the geofence router
    pc,         \* position of the pure-function harness: "init" | "done"
    evalDoc,    \* containsPoint: the document it is called on
    evalPt,     \* containsPoint / filter: the query point (lat, lng)
    evalOut,    \* containsPoint: the value returned
    findIn,     \* check-point filter: the list returned by Geofence.find
    findOut,    \* check-point filter: the list containingGeofences
    normDoc,    \* pre-save hook: the document before the hook
    normMod,    \* pre-save hook: the shape paths isModified() reports
    normOut,    \* pre-save hook: the document after the hook
    users,      \* the User collection: _id -> document
    req,        \* the request the last response answers
    inflight,   \* update requests between their findOne and their save
    client      \* the browser's API client: requests awaiting an answer

vars == <<store, resp, pc, evalDoc, evalPt, evalOut, findIn, findOut,
          normDoc, normMod, normOut, users, req, inflight,
                   client>>

-----------------------------------------------------------------------------
(* Values *)

None == <<>>
Some(v) == <<v>>
IsSome(m) == Len(m) = 1
Val(m) == m[1]

Coord(lat, lng) == [lat |-> lat, lng |-> lng]

Types == {"polygon", "circle", "rectangle"}

\* Vertex lists, each pair written (lat, lng).
OnePoint == << Coord(5, 5) >>
TwoCorners == << Coord(0, 0), Coord(10, 10) >>
Triangle == << Coord(0, 0), Coord(0, 10), Coord(10, 0) >>
ClosedTriangle == << Coord(0, 0), Coord(0, 10), Coord(10, 0), Coord(0, 0) >>
Square == << Coord(0, 0), Coord(0, 10), Coord(10, 10), Coord(10, 0) >>
RectCorners == << Coord(10, 10), Coord(10, 0), Coord(0, 0), Coord(0, 10) >>
WideTriangle == << Coord(0, 0), Coord(0, 20), Coord(20, 0) >>
EastSquare == << Coord(0, 10), Coord(0, 20), Coord(10, 20), Coord(10, 10) >>
SkewTriangle == << Coord(0, 5), Coord(5, 0), Coord(10, 10) >>

VertexLists == {<<>>, OnePoint, TwoCorners, Triangle, ClosedTriangle,
                Square, RectCorners, WideTriangle, EastSquare,
                SkewTriangle}

Centers == {Coord(5, 5), Coord(0, 5)}
MaybeCenters == {None} \cup {Some(c) : c \in Centers}

Radii == {0, 111195, 555975}
MaybeRadii == {None} \cup {Some(r) : r \in Radii}

QueryPoints == {Coord(0, 0), Coord(0, 5), Coord(5, 0), Coord(5, 5),
                Coord(6, 5), Coord(0, 10), Coord(10, 10), Coord(10, 0),
                Coord(20, 20)}

-----------------------------------------------------------------------------
(* Containment evaluator *)

\* R * c of the source for (lat1, lng1) a query point and (lat2, lng2) a
\* center, in metres rounded up.
HaversineMetres ==
    [k \in {<<p.lat, p.lng, c.lat, c.lng>> : p \in QueryPoints, c \in Centers} |->
        CASE k = <<0, 0, 5, 5>>     -> 785768
          [] k = <<0, 5, 5, 5>>     -> 555975
          [] k = <<5, 0, 5, 5>>     -> 553858
          [] k = <<5, 5, 5, 5>>     -> 0
          [] k = <<6, 5, 5, 5>>     -> 111195
          [] k = <<0, 10, 5, 5>>    -> 785768
          [] k = <<10, 10, 5, 5>>   -> 782780
          [] k = <<10, 0, 5, 5>>    -> 782780
          [] k = <<20, 20, 5, 5>>   -> 2327117
          [] k = <<0, 0, 0, 5>>     -> 555975
          [] k = <<0, 5, 0, 5>>     -> 0
          [] k = <<5, 0, 0, 5>>     -> 785768
          [] k = <<5, 5, 0, 5>>     -> 555975
          [] k = <<6, 5, 0, 5>>     -> 667170
          [] k = <<0, 10, 0, 5>>    -> 555975
          [] k = <<10, 10, 0, 5>>   -> 1241931
          [] k = <<10, 0, 0, 5>>    -> 1241931
          [] k = <<20, 20, 0, 5>>   -> 2759216]

calculateDistance(lat1, lng1, lat2, lng2) ==
    HaversineMetres[<<lat1, lng1, lat2, lng2>>]

\* One iteration of the ray-casting loop: does the edge (coordinates[j],
\* coordinates[i]) toggle `inside`?  The source compares
\*   lng < (xj - xi) * (lat - yi) / (yj - yi) + xi
\* behind a guard that makes yj # yi; the division is cleared by multiplying
\* both sides by (yj - yi), reversing the comparison when it is negative.
EdgeCrosses_latNotStrict(lat, lng, ci, cj) ==
    /\ (ci.lat >= lat) # (cj.lat >= lat)
    /\ LET d == cj.lat - ci.lat
           lhs == (lng - ci.lng) * d
           rhs == (cj.lng - ci.lng) * (lat - ci.lat)
       IN  IF d > 0 THEN lhs < rhs ELSE lhs > rhs

EdgeCrosses(lat, lng, ci, cj) ==
    /\ (ci.lat > lat) # (cj.lat > lat)
    /\ LET d == cj.lat - ci.lat
           lhs == (lng - ci.lng) * d
           rhs == (cj.lng - ci.lng) * (lat - ci.lat)
       IN  IF d > 0 THEN lhs < rhs ELSE lhs > rhs

\* The predecessor index j of the loop `for (i = 0, j = n - 1; i < n; j = i++)`,
\* on 1-based sequences.
PrevIndex_noWrap(i, n) == IF i = 1 THEN 1 ELSE i - 1

PrevIndex(i, n) == IF i = 1 THEN n ELSE i - 1

RECURSIVE RayCast(_, _, _, _, _)
RayCast(lat, lng, coordinates, i, inside) ==
    IF i > Len(coordinates) THEN inside
    ELSE RayCast(lat, lng, coordinates, i + 1,
                 IF EdgeCrosses(lat, lng, coordinates[i],
                                coordinates[PrevIndex(i, Len(coordinates))])
                 THEN ~inside ELSE inside)

pointInPolygon_startInside(lat, lng, coordinates) ==
    RayCast(lat, lng, coordinates, 1, TRUE)

pointInPolygon(lat, lng, coordinates) ==
    RayCast(lat, lng, coordinates, 1, FALSE)

\* JavaScript truthiness of an optional number: undefined and 0 are falsy.
TruthyNum(m) == IsSome(m) /\ Val(m) # 0

\* containsPoint with `distance < this.radius`.
containsPoint_strict(doc, lat, lng) ==
    IF doc.type = "circle" /\ IsSome(doc.center) /\ TruthyNum(doc.radius)
    THEN calculateDistance(lat, lng, Val(doc.center).lat, Val(doc.center).lng)
            < Val(doc.radius)
    ELSE IF doc.type = "polygon" /\ Len(doc.coordinates) >= 3
    THEN pointInPolygon(lat, lng, doc.coordinates)
    ELSE FALSE

\* containsPoint falling through to `return true`.
containsPoint_defaultTrue(doc, lat, lng) ==
    IF doc.type = "circle" /\ IsSome(doc.center) /\ TruthyNum(doc.radius)
    THEN calculateDistance(lat, lng, Val(doc.center).lat, Val(doc.center).lng)
            <= Val(doc.radius)
    ELSE IF doc.type = "polygon" /\ Len(doc.coordinates) >= 3
    THEN pointInPolygon(lat, lng, doc.coordinates)
    ELSE TRUE

containsPoint(doc, lat, lng) ==
    IF doc.type = "circle" /\ IsSome(doc.center) /\ TruthyNum(doc.radius)
    THEN calculateDistance(lat, lng, Val(doc.center).lat, Val(doc.center).lng)
            <= Val(doc.radius)
    ELSE IF doc.type = "polygon" /\ Len(doc.coordinates) >= 3
    THEN pointInPolygon(lat, lng, doc.coordinates)
    ELSE FALSE

\* The filter building its result with unshift instead of push.
containingGeofences_reversed(geofences, lat, lng) ==
    LET kept == SelectSeq(geofences, LAMBDA g : containsPoint(g, lat, lng))
    IN  [i \in 1..Len(kept) |-> kept[Len(kept) + 1 - i]]

\* geofences.filter(geofence => geofence.containsPoint(lat, lng))
containingGeofences(geofences, lat, lng) ==
    SelectSeq(geofences, LAMBDA g : containsPoint(g, lat, lng))

-----------------------------------------------------------------------------
(* Geometry normaliser: the pre-save hook *)

ShapePaths == {"coordinates", "type", "center", "radius"}

\* Schema default of the nested path `geometry`.
DefaultGeometry == [type |-> "Point", coordinates |-> <<>>]

\* this.coordinates.map(coord => [coord.lng, coord.lat])
geoCoords(coordinates) ==
    [i \in 1..Len(coordinates) |-> <<coordinates[i].lng, coordinates[i].lat>>]

\* closeRing with `&&` between the two coordinate comparisons.
closeRing_bothDiffer(ring) ==
    IF ring[1][1] # ring[Len(ring)][1] /\ ring[1][2] # ring[Len(ring)][2]
    THEN Append(ring, ring[1])
    ELSE ring

\* closeRing without the push.
closeRing_noPush(ring) == ring

\* closeRing pushing unconditionally.
closeRing_always(ring) == Append(ring, ring[1])

\* The ring after the conditional geoCoords.push(geoCoords[0]).
closeRing(ring) ==
    IF ring[1][1] # ring[Len(ring)][1] \/ ring[1][2] # ring[Len(ring)][2]
    THEN Append(ring, ring[1])
    ELSE ring

\* preSave writing the circle's Point as [lat, lng].
preSave_latFirst(doc, modified) ==
    IF modified \cap ShapePaths # {}
    THEN IF doc.type = "circle" /\ IsSome(doc.center)
         THEN [doc EXCEPT !.geometry =
                  [type |-> "Point",
                   coordinates |-> <<Val(doc.center).lat, Val(doc.center).lng>>]]
         ELSE IF doc.type = "polygon" /\ Len(doc.coordinates) >= 3
         THEN [doc EXCEPT !.geometry =
                  [type |-> "Polygon",
                   coordinates |-> << closeRing(geoCoords(doc.coordinates)) >>]]
         ELSE IF doc.type = "rectangle" /\ Len(doc.coordinates) >= 2
         THEN [doc EXCEPT !.geometry =
                  [type |-> "Polygon",
                   coordinates |-> << closeRing(geoCoords(doc.coordinates)) >>]]
         ELSE doc
    ELSE doc

\* preSave with the isModified test negated.
preSave_guardInverted(doc, modified) ==
    IF modified \cap ShapePaths = {}
    THEN IF doc.type = "circle" /\ IsSome(doc.center)
         THEN [doc EXCEPT !.geometry =
                  [type |-> "Point",
                   coordinates |-> <<Val(doc.center).lng, Val(doc.center).lat>>]]
         ELSE IF doc.type = "polygon" /\ Len(doc.coordinates) >= 3
         THEN [doc EXCEPT !.geometry =
                  [type |-> "Polygon",
                   coordinates |-> << closeRing(geoCoords(doc.coordinates)) >>]]
         ELSE IF doc.type = "rectangle" /\ Len(doc.coordinates) >= 2
         THEN [doc EXCEPT !.geometry =
                  [type |-> "Polygon",
                   coordinates |-> << closeRing(geoCoords(doc.coordinates)) >>]]
         ELSE doc
    ELSE doc

preSave(doc, modified) ==
    IF modified \cap ShapePaths # {}
    THEN IF doc.type = "circle" /\ IsSome(doc.center)
         THEN [doc EXCEPT !.geometry =
                  [type |-> "Point",
                   coordinates |-> <<Val(doc.center).lng, Val(doc.center).lat>>]]
         ELSE IF doc.type = "polygon" /\ Len(doc.coordinates) >= 3
         THEN [doc EXCEPT !.geometry =
                  [type |-> "Polygon",
                   coordinates |-> << closeRing(geoCoords(doc.coordinates)) >>]]
         ELSE IF doc.type = "rectangle" /\ Len(doc.coordinates) >= 2
         THEN [doc EXCEPT !.geometry =
                  [type |-> "Polygon",
                   coordinates |-> << closeRing(geoCoords(doc.coordinates)) >>]]
         ELSE doc
    ELSE doc


-----------------------------------------------------------------------------
(* Documents and schema validation *)

Users == {"u1", "u2"}

MaxNameLength == 100

\* new Geofence({...}): schema defaults for geometry and isActive.
NewGeofence(id, name, coordinates, type, center, radius, createdBy) ==
    [id |-> id, name |-> name, coordinates |-> coordinates, type |-> type,
     center |-> center, radius |-> radius, geometry |-> DefaultGeometry,
     isActive |-> TRUE, createdBy |-> createdBy, tags |-> <<>>]

\* Length of the model's names: "" is the empty string, any other name is
\* a short non-empty string.
NameLength(name) == IF name = "" THEN 0 ELSE 1

\* The validators the schema declares on the modelled paths.
schemaValid(doc) ==
    /\ NameLength(doc.name) > 0
    /\ NameLength(doc.name) <= MaxNameLength
    /\ doc.type \in Types
    /\ \A i \in 1..Len(doc.coordinates) :
          /\ doc.coordinates[i].lat >= -90 /\ doc.coordinates[i].lat <= 90
          /\ doc.coordinates[i].lng >= -180 /\ doc.coordinates[i].lng <= 180
    /\ IsSome(doc.center) =>
          /\ Val(doc.center).lat >= -90 /\ Val(doc.center).lat <= 90
          /\ Val(doc.center).lng >= -180 /\ Val(doc.center).lng <= 180
    /\ IsSome(doc.radius) => Val(doc.radius) >= 0

findOne_anyOwner(id, user) ==
    IF id \in 1..Len(store) THEN Some(store[id]) ELSE None

\* Geofence.findOne({ _id: id, createdBy: user })
findOne(id, user) ==
    IF id \in 1..Len(store) /\ store[id].createdBy = user
    THEN Some(store[id]) ELSE None

\* Geofence.find({ createdBy: user, isActive: true }), in insertion order.
find(user) ==
    SelectSeq(store, LAMBDA g : g.createdBy = user /\ g.isActive)

\* A response of the geofence router: the operation and caller it answers,
\* the HTTP status, the _id of the document in `data` (0 when there is
\* none), for check-point data.point, data.isInside, data.geofences and
\* data.count, for the list routes the list in `data` (as geofences) and
\* count, and for GET /tags the tags in `data`.
Response(op, status, user, id) ==
    [op |-> op, status |-> status, user |-> user, id |-> id,
     lat |-> None, lng |-> None, isInside |-> FALSE, geofences |-> <<>>,
     count |-> 0, tags |-> {}]

NoResponse == Response("none", 0, "u1", 0)


-----------------------------------------------------------------------------
(* Requests *)

MaxGeofences == 1

\* JavaScript truthiness of an optional string: undefined and "" are falsy.
TruthyStr(m) == IsSome(m) /\ Val(m) # ""

\* The circle the requests of Spec draw: centre (0, 5), radius the distance
\* from it to (5, 5).
SpecCircle == [center |-> Coord(0, 5), radius |-> 555975]

EmptyCreate ==
    [name |-> Some("a"), coordinates |-> None, type |-> None,
     center |-> None, radius |-> None, tags |-> None]

\* Bodies of POST /.
CreateBodies ==
    {[EmptyCreate EXCEPT !.coordinates = Some(Square)],
     [EmptyCreate EXCEPT !.coordinates = Some(OnePoint)],
     [EmptyCreate EXCEPT !.coordinates = Some(Square), !.type = Some("polygon")],
     [EmptyCreate EXCEPT !.coordinates = Some(OnePoint), !.type = Some("polygon")],
     [EmptyCreate EXCEPT !.coordinates = Some(Square), !.type = Some("rectangle")],
     [EmptyCreate EXCEPT !.coordinates = Some(OnePoint), !.type = Some("rectangle")],
     [EmptyCreate EXCEPT !.coordinates = Some(OnePoint), !.type = Some("circle"),
                         !.center = Some(SpecCircle.center), !.radius = Some(SpecCircle.radius)],
     [EmptyCreate EXCEPT !.coordinates = Some(OnePoint), !.type = Some("circle")],
     [EmptyCreate EXCEPT !.type = Some("polygon")],
     [EmptyCreate EXCEPT !.name = None, !.coordinates = Some(Square)],
     [EmptyCreate EXCEPT !.coordinates = Some(Square), !.radius = Some(-1)]}

EmptyUpdate ==
    [name |-> None, coordinates |-> None, type |-> None, center |-> None,
     radius |-> None, isActive |-> None, tags |-> None]

\* Bodies of PUT /:id: partial replacements.
UpdateBodies ==
    {EmptyUpdate, [EmptyUpdate EXCEPT !.name = Some("")]}
    \cup {[EmptyUpdate EXCEPT !.type = Some(t)] : t \in Types}
    \cup {[EmptyUpdate EXCEPT !.coordinates = Some(c)] : c \in {OnePoint, Square}}
    \cup {[EmptyUpdate EXCEPT !.center = Some(SpecCircle.center),
                              !.radius = Some(SpecCircle.radius)],
          [EmptyUpdate EXCEPT !.isActive = Some(TRUE)],
          [EmptyUpdate EXCEPT !.isActive = Some(FALSE)],
          [EmptyUpdate EXCEPT !.type = Some("circle"),
                              !.center = Some(SpecCircle.center),
                              !.radius = Some(SpecCircle.radius)],
          [EmptyUpdate EXCEPT !.type = Some("polygon"),
                              !.coordinates = Some(Square)]}

\* Bodies of POST /check-point.
CheckBodies ==
    {[lat |-> Some(p.lat), lng |-> Some(p.lng)] :
        p \in {Coord(5, 5), Coord(0, 5), Coord(20, 20)}}
    \cup {[lat |-> None, lng |-> Some(5)]}

\* router.post('/')
CreateGeofence(user, body) ==
    IF ~TruthyStr(body.name) \/ ~IsSome(body.coordinates)
          \/ Len(Val(body.coordinates)) = 0
    THEN /\ resp' = Response("create", 400, user, 0)
         /\ UNCHANGED store
    ELSE IF body.type = Some("polygon") /\ Len(Val(body.coordinates)) < 3
    THEN /\ resp' = Response("create", 400, user, 0)
         /\ UNCHANGED store
    ELSE IF body.type = Some("circle")
               /\ (~IsSome(body.center) \/ ~TruthyNum(body.radius))
    THEN /\ resp' = Response("create", 400, user, 0)
         /\ UNCHANGED store
    ELSE LET geofence ==
                 [NewGeofence(Len(store) + 1, Val(body.name),
                              Val(body.coordinates),
                              IF IsSome(body.type) THEN Val(body.type)
                                                   ELSE "polygon",
                              body.center, body.radius, user)
                    EXCEPT !.tags = IF IsSome(body.tags) THEN Val(body.tags)
                                                         ELSE <<>>]
             \* every path given a value by the constructor is modified
             modified ==
                 {"name", "coordinates", "type"}
                 \cup (IF IsSome(body.center) THEN {"center"} ELSE {})
                 \cup (IF IsSome(body.radius) THEN {"radius"} ELSE {})
         IN  IF ~schemaValid(geofence)
             THEN /\ resp' = Response("create", 500, user, 0)
                  /\ UNCHANGED store
             ELSE /\ Len(store) < MaxGeofences
                  /\ store' = Append(store, preSave(geofence, modified))
                  /\ resp' = Response("create", 201, user, Len(store) + 1)

\* The assignments `if (x !== undefined) geofence.x = x` of router.put.
applyUpdate(doc, body) ==
    [doc EXCEPT
        !.name = IF IsSome(body.name) THEN Val(body.name) ELSE @,
        !.coordinates = IF IsSome(body.coordinates)
                        THEN Val(body.coordinates) ELSE @,
        !.type = IF IsSome(body.type) THEN Val(body.type) ELSE @,
        !.center = IF IsSome(body.center) THEN body.center ELSE @,
        !.radius = IF IsSome(body.radius) THEN body.radius ELSE @,
        !.isActive = IF IsSome(body.isActive) THEN Val(body.isActive) ELSE @,
        !.tags = IF IsSome(body.tags) THEN Val(body.tags) ELSE @]

\* The paths isModified() reports after the assignments: a path assigned a
\* different value is modified; a path assigned an equal value is modified
\* or not (`same`) depending on how the document compares the two values.
modifiedPaths(old, new, body, same) ==
    {p \in {"name", "coordinates", "type", "center", "radius", "isActive",
            "tags"} :
        /\ IsSome(body[p])
        /\ old[p] # new[p] \/ same}

\* router.put looking the document up by _id alone and stamping the
\* caller as createdBy.
UpdateGeofence_takeOwnership(user, id, body, same) ==
    IF id \notin 1..Len(store)
    THEN /\ resp' = Response("update", 404, user, 0)
         /\ UNCHANGED store
    ELSE LET geofence == [applyUpdate(store[id], body) EXCEPT !.createdBy = user]
             modified == modifiedPaths(store[id], geofence, body, same)
         IN  IF ~schemaValid(geofence)
             THEN /\ resp' = Response("update", 500, user, 0)
                  /\ UNCHANGED store
             ELSE /\ store' = [store EXCEPT ![id] = preSave(geofence, modified)]
                  /\ resp' = Response("update", 200, user, id)

\* router.put('/:id')
UpdateGeofence(user, id, body, same) ==
    LET found == findOne(id, user) IN
    IF ~IsSome(found)
    THEN /\ resp' = Response("update", 404, user, 0)
         /\ UNCHANGED store
    ELSE LET geofence == applyUpdate(Val(found), body)
             modified == modifiedPaths(Val(found), geofence, body, same)
         IN  IF ~schemaValid(geofence)
             THEN /\ resp' = Response("update", 500, user, 0)
                  /\ UNCHANGED store
             ELSE /\ store' = [store EXCEPT ![id] = preSave(geofence, modified)]
                  /\ resp' = Response("update", 200, user, id)

\* router.delete calling deleteOne instead of flipping isActive.
DeleteGeofence_remove(user, id) ==
    LET found == findOne(id, user) IN
    IF ~IsSome(found)
    THEN /\ resp' = Response("delete", 404, user, 0)
         /\ UNCHANGED store
    ELSE /\ store' = [j \in 1..(Len(store) - 1) |->
                        IF j < id THEN store[j] ELSE store[j + 1]]
         /\ resp' = Response("delete", 200, user, 0)

\* router.delete('/:id')
DeleteGeofence(user, id) ==
    LET found == findOne(id, user) IN
    IF ~IsSome(found)
    THEN /\ resp' = Response("delete", 404, user, 0)
         /\ UNCHANGED store
    ELSE LET geofence == [Val(found) EXCEPT !.isActive = FALSE]
             modified == IF Val(found).isActive THEN {"isActive"} ELSE {}
         IN  /\ store' = [store EXCEPT ![id] = preSave(geofence, modified)]
             /\ resp' = Response("delete", 200, user, 0)

\* router.post('/check-point')
CheckPoint(user, body) ==
    /\ UNCHANGED store
    /\ IF ~TruthyNum(body.lat) \/ ~TruthyNum(body.lng)
       THEN resp' = [Response("checkPoint", 400, user, 0) EXCEPT
                        !.lat = body.lat, !.lng = body.lng]
       ELSE LET geofences == find(user)
                containing == containingGeofences(geofences, Val(body.lat),
                                                  Val(body.lng))
            IN  resp' = [Response("checkPoint", 200, user, 0) EXCEPT
                            !.lat = body.lat, !.lng = body.lng,
                            !.isInside = Len(containing) > 0,
                            !.geofences = containing,
                            !.count = Len(containing)]

\* router.get('/:id')
GetGeofence(user, id) ==
    /\ UNCHANGED store
    /\ IF ~IsSome(findOne(id, user))
       THEN resp' = Response("get", 404, user, 0)
       ELSE resp' = Response("get", 200, user, id)

\* .sort({ createdAt: -1 }) of a list in insertion order.
NewestFirst(list) == [k \in 1..Len(list) |-> list[Len(list) + 1 - k]]

\* router.get('/')
ListGeofences(user) ==
    /\ UNCHANGED store
    /\ resp' = [Response("list", 200, user, 0) EXCEPT
                   !.geofences = NewestFirst(find(user)),
                   !.count = Len(find(user))]

\* Geofence.distinct('tags', { createdBy: user, isActive: true })
distinctTags(user) ==
    {find(user)[k].tags[j] : <<k, j>> \in
        {<<k, j>> \in (1..Len(find(user))) \X (1..2) :
            j <= Len(find(user)[k].tags)}}

\* router.get('/tags')
ListTags(user) ==
    /\ UNCHANGED store
    /\ resp' = [Response("tags", 200, user, 0) EXCEPT
                   !.tags = distinctTags(user),
                   !.count = Cardinality(distinctTags(user))]

\* router.get('/tags/:tag')
ListByTag(user, tag) ==
    LET geofences ==
            SelectSeq(find(user),
                      LAMBDA g : \E j \in 1..Len(g.tags) : g.tags[j] = tag)
    IN  /\ UNCHANGED store
        /\ resp' = [Response("byTag", 200, user, 0) EXCEPT
                       !.geofences = NewestFirst(geofences),
                       !.count = Len(geofences)]

-----------------------------------------------------------------------------
(* Users: the User model, the auth middleware and the user routes *)

Roles == {"client", "admin"}

\* A User document, on the paths the middleware and the routes read or
\* write (role and isActive with their schema defaults).
NewUser(firstName) ==
    [firstName |-> firstName, role |-> "client", isActive |-> TRUE]

InitialUsers ==
    [u \in Users |-> IF u = "u1" THEN [NewUser("a") EXCEPT !.role = "admin"]
                     ELSE NewUser("a")]

\* _ids a request may name: the stored users and one that is not stored.
UserIds == Users \cup {"u9"}

\* User.findById(id)
findById(id) == IF id \in DOMAIN users THEN Some(users[id]) ELSE None

\* userSchema.methods.isAdmin
isAdmin(user) == user.role = "admin"

\* authenticateToken with the JwtStrategy verify callback, for a token that
\* verifies and has not expired: the user the token names is attached to the
\* request when it exists and is active, otherwise the request is answered 401.
authenticateToken_ignoreActive(caller) == findById(caller)

authenticateToken(caller) ==
    IF IsSome(findById(caller)) /\ Val(findById(caller)).isActive
    THEN findById(caller) ELSE None

\* A response of the user and auth routes: the operation and caller it
\* answers, the HTTP status, the _id in the route and the cookies it sets.
UserResponse(op, status, user, target) ==
    [op |-> op, status |-> status, user |-> user, target |-> target,
     cookies |-> None]

\* The request a response answers: operation, caller, route _id and the
\* body fields that matter to the guards.
UserRequest(op, user, target, body) ==
    [op |-> op, user |-> user, target |-> target, body |-> body]

EmptyUserBody == [firstName |-> None, role |-> None, isActive |-> None]

NoRequest == UserRequest("none", "u1", "u1", EmptyUserBody)

AccountsIdle ==
    /\ users = InitialUsers
    /\ req = NoRequest

\* Bodies of PUT /api/users/:id and PUT /api/auth/profile.
UserBodies ==
    {EmptyUserBody,
     [EmptyUserBody EXCEPT !.firstName = Some("b")],
     [EmptyUserBody EXCEPT !.firstName = Some("")],
     [EmptyUserBody EXCEPT !.role = Some("admin")],
     [EmptyUserBody EXCEPT !.role = Some("client")],
     [EmptyUserBody EXCEPT !.role = Some("root")],
     [EmptyUserBody EXCEPT !.isActive = Some(TRUE)],
     [EmptyUserBody EXCEPT !.isActive = Some(FALSE)],
     [EmptyUserBody EXCEPT !.firstName = Some("b"), !.role = Some("admin")],
     [EmptyUserBody EXCEPT !.role = Some("client"), !.isActive = Some(FALSE)]}

\* The express-validator chain of PUT /api/users/:id.
userBodyValid(body) ==
    /\ IsSome(body.firstName) => NameLength(Val(body.firstName)) > 0
    /\ IsSome(body.role) => Val(body.role) \in Roles

UpdateUser_ownerMayPromote(caller, id, body) ==
    LET reqUser == authenticateToken(caller)
        user == findById(id)
    IN  /\ req' = UserRequest("updateUser", caller, id, body)
        /\ IF ~IsSome(reqUser)
           THEN /\ resp' = UserResponse("updateUser", 401, caller, id)
                /\ UNCHANGED users
           ELSE IF caller # id /\ ~isAdmin(Val(reqUser))
           THEN /\ resp' = UserResponse("updateUser", 403, caller, id)
                /\ UNCHANGED users
           ELSE IF ~userBodyValid(body)
           THEN /\ resp' = UserResponse("updateUser", 400, caller, id)
                /\ UNCHANGED users
           ELSE IF ~IsSome(user)
           THEN /\ resp' = UserResponse("updateUser", 404, caller, id)
                /\ UNCHANGED users
           ELSE IF body.isActive = Some(FALSE) /\ caller = id
           THEN /\ resp' = UserResponse("updateUser", 400, caller, id)
                /\ UNCHANGED users
           ELSE LET named == IF IsSome(body.firstName)
                             THEN [Val(user) EXCEPT !.firstName = Val(body.firstName)]
                             ELSE Val(user)
                    ruled == IF IsSome(body.role)
                             THEN [named EXCEPT !.role = Val(body.role)]
                             ELSE named
                    final == IF IsSome(body.isActive)
                             THEN [ruled EXCEPT !.isActive = Val(body.isActive)]
                             ELSE ruled
                IN  /\ users' = [users EXCEPT ![id] = final]
                    /\ resp' = UserResponse("updateUser", 200, caller, id)

\* router.put('/:id') of the user routes, behind authenticateToken and
\* requireOwnershipOrAdmin.
UpdateUser(caller, id, body) ==
    LET reqUser == authenticateToken(caller)
        user == findById(id)
    IN  /\ req' = UserRequest("updateUser", caller, id, body)
        /\ IF ~IsSome(reqUser)
           THEN /\ resp' = UserResponse("updateUser", 401, caller, id)
                /\ UNCHANGED users
           ELSE IF caller # id /\ ~isAdmin(Val(reqUser))
           THEN /\ resp' = UserResponse("updateUser", 403, caller, id)
                /\ UNCHANGED users
           ELSE IF ~userBodyValid(body)
           THEN /\ resp' = UserResponse("updateUser", 400, caller, id)
                /\ UNCHANGED users
           ELSE IF ~IsSome(user)
           THEN /\ resp' = UserResponse("updateUser", 404, caller, id)
                /\ UNCHANGED users
           ELSE IF (IsSome(body.role) \/ IsSome(body.isActive))
                   /\ ~isAdmin(Val(reqUser))
           THEN /\ resp' = UserResponse("updateUser", 403, caller, id)
                /\ UNCHANGED users
           ELSE IF body.isActive = Some(FALSE) /\ caller = id
           THEN /\ resp' = UserResponse("updateUser", 400, caller, id)
                /\ UNCHANGED users
           ELSE LET named == IF IsSome(body.firstName)
                             THEN [Val(user) EXCEPT !.firstName = Val(body.firstName)]
                             ELSE Val(user)
                    ruled == IF isAdmin(Val(reqUser)) /\ IsSome(body.role)
                             THEN [named EXCEPT !.role = Val(body.role)]
                             ELSE named
                    final == IF isAdmin(Val(reqUser)) /\ IsSome(body.isActive)
                             THEN [ruled EXCEPT !.isActive = Val(body.isActive)]
                             ELSE ruled
                IN  /\ users' = [users EXCEPT ![id] = final]
                    /\ resp' = UserResponse("updateUser", 200, caller, id)

\* router.put('/profile') of the auth routes, behind authenticateToken.
UpdateProfile(caller, body) ==
    LET reqUser == authenticateToken(caller)
    IN  /\ req' = UserRequest("updateProfile", caller, caller, body)
        /\ IF ~IsSome(reqUser)
           THEN /\ resp' = UserResponse("updateProfile", 401, caller, caller)
                /\ UNCHANGED users
           ELSE IF ~userBodyValid([body EXCEPT !.role = None])
           THEN /\ resp' = UserResponse("updateProfile", 400, caller, caller)
                /\ UNCHANGED users
           ELSE /\ users' = [users EXCEPT ![caller].firstName =
                                IF IsSome(body.firstName)
                                THEN Val(body.firstName) ELSE @]
                /\ resp' = UserResponse("updateProfile", 200, caller, caller)

\* What the refreshToken cookie may hold: nothing, a token that is not of
\* type 'refresh', or a refresh token; a token names the user it was
\* issued to.
TokenKinds == {"none", "access", "refresh"}

\* router.post('/refresh') of the auth routes (public).
RefreshToken(caller, kind) ==
    LET user == findById(caller)
    IN  /\ req' = [op |-> "refresh", user |-> caller, target |-> caller,
                   body |-> EmptyUserBody, refreshToken |-> kind]
        /\ UNCHANGED users
        /\ IF kind # "refresh"
           THEN resp' = UserResponse("refresh", 401, caller, caller)
           ELSE IF ~IsSome(user) \/ ~Val(user).isActive
           THEN resp' = UserResponse("refresh", 401, caller, caller)
           ELSE resp' = [UserResponse("refresh", 200, caller, caller) EXCEPT
                            !.cookies = Some([accessToken |-> caller,
                                              refreshToken |-> caller])]

\* router.post('/') of the geofence routes with its authenticateToken.
AuthedCreateGeofence(caller, body) ==
    /\ req' = UserRequest("createGeofence", caller, caller, EmptyUserBody)
    /\ UNCHANGED users
    /\ IF ~IsSome(authenticateToken(caller))
       THEN /\ resp' = UserResponse("createGeofence", 401, caller, caller)
            /\ UNCHANGED store
       ELSE CreateGeofence(caller, body)

\* router.delete('/:id') of the geofence routes with its authenticateToken.
AuthedDeleteGeofence(caller, id) ==
    /\ req' = UserRequest("deleteGeofence", caller, caller, EmptyUserBody)
    /\ UNCHANGED users
    /\ IF ~IsSome(authenticateToken(caller))
       THEN /\ resp' = UserResponse("deleteGeofence", 401, caller, caller)
            /\ UNCHANGED store
       ELSE DeleteGeofence(caller, id)

\* router.delete('/:id') of the user routes, behind authenticateToken and
\* requireAdmin.
DeleteUser(caller, id) ==
    LET reqUser == authenticateToken(caller)
        user == findById(id)
    IN  /\ req' = UserRequest("deleteUser", caller, id, EmptyUserBody)
        /\ IF ~IsSome(reqUser)
           THEN /\ resp' = UserResponse("deleteUser", 401, caller, id)
                /\ UNCHANGED users
           ELSE IF ~isAdmin(Val(reqUser))
           THEN /\ resp' = UserResponse("deleteUser", 403, caller, id)
                /\ UNCHANGED users
           ELSE IF caller = id
           THEN /\ resp' = UserResponse("deleteUser", 400, caller, id)
                /\ UNCHANGED users
           ELSE IF ~IsSome(user)
           THEN /\ resp' = UserResponse("deleteUser", 404, caller, id)
                /\ UNCHANGED users
           ELSE /\ users' = [users EXCEPT ![id].isActive = FALSE]
                /\ resp' = UserResponse("deleteUser", 200, caller, id)

\* router.post('/:id/activate'), behind authenticateToken and requireAdmin.
ActivateUser(caller, id) ==
    LET reqUser == authenticateToken(caller)
        user == findById(id)
    IN  /\ req' = UserRequest("activateUser", caller, id, EmptyUserBody)
        /\ IF ~IsSome(reqUser)
           THEN /\ resp' = UserResponse("activateUser", 401, caller, id)
                /\ UNCHANGED users
           ELSE IF ~isAdmin(Val(reqUser))
           THEN /\ resp' = UserResponse("activateUser", 403, caller, id)
                /\ UNCHANGED users
           ELSE IF ~IsSome(user)
           THEN /\ resp' = UserResponse("activateUser", 404, caller, id)
                /\ UNCHANGED users
           ELSE /\ users' = [users EXCEPT ![id].isActive = TRUE]
                /\ resp' = UserResponse("activateUser", 200, caller, id)

-----------------------------------------------------------------------------
(* Update requests whose findOne and save are separate steps *)

\* The requests the server may be handling at once.
Slots == {"r1", "r2"}

NoFlights == [s \in Slots |-> None]

\* The geometry of a document the hook has not assigned.
Unassigned == [type |-> "none", coordinates |-> <<>>]

\* router.put('/:id') up to `await geofence.save()`: the document is loaded
\* and held in memory by the request.
LoadGeofence(slot, user, id, body) ==
    LET found == findOne(id, user) IN
    /\ inflight[slot] = None
    /\ UNCHANGED store
    /\ IF ~IsSome(found)
       THEN /\ resp' = Response("update", 404, user, 0)
            /\ UNCHANGED inflight
       ELSE /\ inflight' = [inflight EXCEPT ![slot] =
                               Some([user |-> user, id |-> id, body |-> body,
                                     geofence |-> Val(found)])]
            /\ UNCHANGED resp

\* router.put('/:id') from the assignments to the response: the fields of
\* the body are assigned to the in-memory document, the pre-save hook runs
\* on it, and save() writes the modified paths (those assigned by the route
\* and, when the hook assigned it, geometry) to the stored document.
SaveGeofence(slot, same) ==
    /\ IsSome(inflight[slot])
    /\ LET r == Val(inflight[slot])
           geofence == applyUpdate(r.geofence, r.body)
           modified == modifiedPaths(r.geofence, geofence, r.body, same)
           saved == preSave(geofence, modified)
           assigned ==
               preSave([geofence EXCEPT !.geometry = Unassigned], modified).geometry
                   # Unassigned
           written == modified \cup
                      (IF assigned /\ (saved.geometry # r.geofence.geometry \/ same)
                       THEN {"geometry"} ELSE {})
       IN  IF ~schemaValid(geofence)
           THEN /\ resp' = Response("update", 500, r.user, 0)
                /\ UNCHANGED store
           ELSE /\ store' = [store EXCEPT ![r.id] =
                               [p \in DOMAIN store[r.id] |->
                                   IF p \in written THEN saved[p] ELSE store[r.id][p]]]
                /\ resp' = Response("update", 200, r.user, r.id)
    /\ inflight' = [inflight EXCEPT ![slot] = None]

-----------------------------------------------------------------------------
(* The browser's API client *)

\* The client's state: the requests awaiting an answer, innermost last (each
\* with its url and its config._retry flag; a request below the last one is
\* suspended in the response interceptor, awaiting the refresh call above
\* it), how often POST /auth/refresh and the caller's request were sent,
\* the default Authorization header, the 'auth-storage' item, the page and
\* how the caller's promise settled.  Toasts and console output are left out.
NoClient == [stack |-> <<>>, refreshes |-> 0, sends |-> 0,
             authHeader |-> TRUE, authStorage |-> TRUE,
             location |-> "/dashboard", outcome |-> "none"]

MaxRefreshes == 4

\* Urls the pages call through the client.
Endpoints == {"/geofences", "/auth/me"}

Locations == {"/dashboard", "/login"}

Frame(url, retry) == [url |-> url, retry |-> retry]

Top == client.stack[Len(client.stack)]

\* api(config): the caller's request is sent.
apiCall(url, location, header) ==
    /\ client.stack = <<>> /\ client.outcome = "none"
    /\ client' = [NoClient EXCEPT !.stack = << Frame(url, FALSE) >>,
                                  !.sends = 1,
                                  !.authHeader = header,
                                  !.location = location,
                                  !.outcome = "pending"]

\* The innermost request is answered 2xx.  When it is a refresh call, the
\* interceptor suspended below it sets the Authorization header and sends
\* its own request again.
onFulfilled ==
    /\ client.stack # <<>>
    /\ IF Len(client.stack) = 1
       THEN client' = [client EXCEPT !.stack = <<>>, !.outcome = "resolved"]
       ELSE LET rest == SubSeq(client.stack, 1, Len(client.stack) - 1)
            IN  client' = [client EXCEPT
                    !.stack = rest,
                    !.authHeader = TRUE,
                    !.sends = IF Len(rest) = 1 THEN @ + 1 ELSE @,
                    !.refreshes = IF Len(rest) > 1 THEN @ + 1 ELSE @]

\* The promise of the innermost request rejects: every interceptor suspended
\* below it runs its catch block (clear the auth state, go to the login page)
\* and rejects in turn, down to the caller.
rejectTop ==
    IF Len(client.stack) = 1
    THEN client' = [client EXCEPT !.stack = <<>>, !.outcome = "rejected"]
    ELSE client' = [client EXCEPT !.stack = <<>>, !.outcome = "rejected",
                                  !.authHeader = FALSE,
                                  !.authStorage = FALSE,
                                  !.location = "/login"]

\* The response interceptor's error handler for the innermost request:
\* status 0 stands for no response (network error).
onRejected(status) ==
    /\ client.stack # <<>>
    /\ IF status = 401 /\ ~Top.retry
       THEN /\ client.refreshes < MaxRefreshes
            /\ client' = [client EXCEPT
                    !.stack = Append([@ EXCEPT ![Len(@)].retry = TRUE],
                                     Frame("/auth/refresh", FALSE)),
                    !.refreshes = @ + 1]
       ELSE rejectTop


\* No user request answered, no update in flight, no client call made.
SessionIdle ==
    /\ AccountsIdle
    /\ inflight = NoFlights
    /\ client = NoClient

Harness == <<pc, evalDoc, evalPt, evalOut, findIn, findOut,
             normDoc, normMod, normOut, users, req, inflight,
                   client>>

IdleDoc == NewGeofence(0, "a", <<>>, "polygon", None, None, "u1")

HarnessIdle ==
    /\ pc = "idle"
    /\ evalDoc = IdleDoc /\ evalPt = Coord(0, 0) /\ evalOut = FALSE
    /\ findIn = <<>> /\ findOut = <<>>
    /\ normDoc = IdleDoc /\ normMod = {} /\ normOut = IdleDoc
    /\ SessionIdle

Init ==
    /\ store = <<>>
    /\ resp = NoResponse
    /\ HarnessIdle

Create == \E user \in Users, body \in CreateBodies :
            CreateGeofence(user, body) /\ UNCHANGED Harness

\* `same` only matters when the body assigns a shape path its stored value.
SameChoices(user, id, body) ==
    IF /\ IsSome(findOne(id, user))
       /\ \E p \in ShapePaths :
             IsSome(body[p])
             /\ applyUpdate(Val(findOne(id, user)), body)[p] = Val(findOne(id, user))[p]
    THEN BOOLEAN ELSE {FALSE}

Update == \E user \in Users, id \in 1..MaxGeofences, body \in UpdateBodies :
            \E same \in SameChoices(user, id, body) :
                UpdateGeofence(user, id, body, same) /\ UNCHANGED Harness

Delete == \E user \in Users, id \in 1..MaxGeofences :
            DeleteGeofence(user, id) /\ UNCHANGED Harness

Check == \E user \in Users, body \in CheckBodies :
            CheckPoint(user, body) /\ UNCHANGED Harness

Next == Create \/ Update \/ Delete \/ Check

Spec == Init /\ [][Next]_vars


-----------------------------------------------------------------------------
(* containsPoint applied to one document and one query point *)

\* The shape fields a stored document can hold.
EvalDocs ==
    {[IdleDoc EXCEPT !.type = t, !.coordinates = cs, !.center = c, !.radius = r] :
        t \in Types, cs \in VertexLists, c \in MaybeCenters, r \in MaybeRadii}

InitEval ==
    /\ store = <<>>
    /\ resp = NoResponse
    /\ pc = "init"
    /\ evalDoc \in EvalDocs
    /\ evalPt \in QueryPoints
    /\ evalOut = FALSE
    /\ findIn = <<>> /\ findOut = <<>>
    /\ normDoc = IdleDoc /\ normMod = {} /\ normOut = IdleDoc
    /\ SessionIdle

Contains ==
    /\ pc = "init"
    /\ evalOut' = containsPoint(evalDoc, evalPt.lat, evalPt.lng)
    /\ pc' = "done"
    /\ UNCHANGED <<store, resp, evalDoc, evalPt, findIn, findOut,
                   normDoc, normMod, normOut, users, req, inflight,
                   client>>

NextEval == Contains

SpecEval == InitEval /\ [][NextEval]_vars

-----------------------------------------------------------------------------
(* The check-point filter applied to one list and one query point *)

MaxList == 3

SampleFences ==
    {[IdleDoc EXCEPT !.id = 1, !.type = "circle", !.coordinates = OnePoint,
                     !.center = Some(Coord(5, 5)), !.radius = Some(111195)],
     [IdleDoc EXCEPT !.id = 2, !.type = "polygon", !.coordinates = Square],
     [IdleDoc EXCEPT !.id = 3, !.type = "polygon", !.coordinates = TwoCorners],
     [IdleDoc EXCEPT !.id = 4, !.type = "rectangle", !.coordinates = RectCorners]}

SampleLists ==
    UNION {[1..n -> SampleFences] : n \in 0..MaxList}

InitFind ==
    /\ store = <<>>
    /\ resp = NoResponse
    /\ pc = "init"
    /\ evalDoc = IdleDoc
    /\ evalPt \in {Coord(5, 5), Coord(6, 5), Coord(20, 20)}
    /\ evalOut = FALSE
    /\ findIn \in SampleLists
    /\ findOut = <<>>
    /\ normDoc = IdleDoc /\ normMod = {} /\ normOut = IdleDoc
    /\ SessionIdle

FindContaining ==
    /\ pc = "init"
    /\ findOut' = containingGeofences(findIn, evalPt.lat, evalPt.lng)
    /\ pc' = "done"
    /\ UNCHANGED <<store, resp, evalDoc, evalPt, evalOut, findIn,
                   normDoc, normMod, normOut, users, req, inflight,
                   client>>

NextFind == FindContaining

SpecFind == InitFind /\ [][NextFind]_vars

-----------------------------------------------------------------------------
(* The pre-save hook applied to one document *)

\* Geometries a document can hold when the hook runs: the schema default
\* of a new document, or one stored by an earlier save.
PriorGeometries ==
    {DefaultGeometry,
     [type |-> "Point", coordinates |-> <<5, 5>>],
     [type |-> "Polygon", coordinates |-> << closeRing(geoCoords(Square)) >>]}

NormDocs ==
    {[d EXCEPT !.geometry = g] : d \in EvalDocs, g \in PriorGeometries}

InitNorm ==
    /\ store = <<>>
    /\ resp = NoResponse
    /\ pc = "init"
    /\ evalDoc = IdleDoc /\ evalPt = Coord(0, 0) /\ evalOut = FALSE
    /\ findIn = <<>> /\ findOut = <<>>
    /\ normDoc \in NormDocs
    /\ normMod \in SUBSET ShapePaths
    /\ normOut = normDoc
    /\ SessionIdle

Normalize ==
    /\ pc = "init"
    /\ normOut' = preSave(normDoc, normMod)
    /\ pc' = "done"
    /\ UNCHANGED <<store, resp, evalDoc, evalPt, evalOut, findIn, findOut,
                   normDoc, normMod, users, req, inflight,
                   client>>

NextNorm == Normalize

SpecNorm == InitNorm /\ [][NextNorm]_vars


-----------------------------------------------------------------------------
(* The routes driven with requests that carry a radius of 0 *)

RadiusCreateBodies ==
    {[EmptyCreate EXCEPT !.coordinates = Some(OnePoint), !.type = Some("circle"),
                         !.center = Some(SpecCircle.center),
                         !.radius = Some(SpecCircle.radius)],
     [EmptyCreate EXCEPT !.coordinates = Some(OnePoint), !.type = Some("circle"),
                         !.center = Some(SpecCircle.center),
                         !.radius = Some(0)],
     [EmptyCreate EXCEPT !.coordinates = Some(Square), !.type = Some("polygon"),
                         !.radius = Some(0)],
     [EmptyCreate EXCEPT !.coordinates = Some(Square), !.type = Some("polygon"),
                         !.radius = Some(-1)]}

RadiusUpdateBodies ==
    {[EmptyUpdate EXCEPT !.radius = Some(0)],
     [EmptyUpdate EXCEPT !.radius = Some(-1)],
     [EmptyUpdate EXCEPT !.radius = Some(SpecCircle.radius)],
     [EmptyUpdate EXCEPT !.type = Some("circle")],
     [EmptyUpdate EXCEPT !.type = Some("polygon")],
     [EmptyUpdate EXCEPT !.center = Some(SpecCircle.center)]}

CreateRadius == \E user \in Users, body \in RadiusCreateBodies :
                    CreateGeofence(user, body) /\ UNCHANGED Harness

UpdateRadius == \E user \in Users, id \in 1..MaxGeofences,
                   body \in RadiusUpdateBodies :
                    \E same \in SameChoices(user, id, body) :
                        UpdateGeofence(user, id, body, same) /\ UNCHANGED Harness

NextRadius == CreateRadius \/ UpdateRadius \/ Check

SpecRadius == Init /\ [][NextRadius]_vars

-----------------------------------------------------------------------------
(* The user routes driven by every caller against every _id *)

NoUserResponse == UserResponse("none", 0, "u1", "u1")

InitUsers ==
    /\ store = <<>>
    /\ resp = NoUserResponse
    /\ HarnessIdle

UserSide == <<pc, evalDoc, evalPt, evalOut, findIn, findOut,
              normDoc, normMod, normOut, inflight, client>>

UserUpdate == \E caller \in Users, id \in UserIds, body \in UserBodies :
                UpdateUser(caller, id, body) /\ UNCHANGED <<store, UserSide>>

UserDelete == \E caller \in Users, id \in UserIds :
                DeleteUser(caller, id) /\ UNCHANGED <<store, UserSide>>

UserActivate == \E caller \in Users, id \in UserIds :
                  ActivateUser(caller, id) /\ UNCHANGED <<store, UserSide>>

UserGeofenceBodies ==
    {[EmptyCreate EXCEPT !.coordinates = Some(Square), !.type = Some("polygon")]}

UserProfile == \E caller \in Users, body \in UserBodies :
                 /\ body.role = None /\ body.isActive = None
                 /\ UpdateProfile(caller, body) /\ UNCHANGED <<store, UserSide>>

UserRefresh == \E caller \in Users, kind \in TokenKinds :
                 RefreshToken(caller, kind) /\ UNCHANGED <<store, UserSide>>

UserCreateGeofence == \E caller \in Users, body \in UserGeofenceBodies :
                        AuthedCreateGeofence(caller, body) /\ UNCHANGED UserSide

UserDeleteGeofence == \E caller \in Users, id \in 1..MaxGeofences :
                        AuthedDeleteGeofence(caller, id) /\ UNCHANGED UserSide

NextUsers ==
    \/ UserUpdate \/ UserDelete \/ UserActivate \/ UserProfile \/ UserRefresh
    \/ UserCreateGeofence \/ UserDeleteGeofence

SpecUsers == InitUsers /\ [][NextUsers]_vars

-----------------------------------------------------------------------------
(* Two update requests interleaving on one geofence *)

\* Bodies whose shape fields are sufficient for the kind they leave the
\* document with, so that an update handled alone stores a derived geometry.
RaceCreateBodies ==
    {[EmptyCreate EXCEPT !.coordinates = Some(Square), !.type = Some("polygon")]}

RaceUpdateBodies ==
    {[EmptyUpdate EXCEPT !.name = Some("b")],
     [EmptyUpdate EXCEPT !.coordinates = Some(Triangle)],
     [EmptyUpdate EXCEPT !.type = Some("polygon"), !.coordinates = Some(Square)],
     [EmptyUpdate EXCEPT !.type = Some("circle"),
                         !.center = Some(SpecCircle.center),
                         !.radius = Some(SpecCircle.radius)]}

RaceSide == <<pc, evalDoc, evalPt, evalOut, findIn, findOut,
              normDoc, normMod, normOut, users, req, client>>

RaceCreate == \E user \in Users, body \in RaceCreateBodies :
                CreateGeofence(user, body) /\ UNCHANGED <<RaceSide, inflight>>

RaceLoad == \E slot \in Slots, user \in Users, id \in 1..MaxGeofences,
               body \in RaceUpdateBodies :
              LoadGeofence(slot, user, id, body) /\ UNCHANGED RaceSide

RaceSave == \E slot \in Slots, same \in BOOLEAN :
              SaveGeofence(slot, same) /\ UNCHANGED RaceSide

NextRace == RaceCreate \/ RaceLoad \/ RaceSave

SpecRace == Init /\ [][NextRace]_vars

-----------------------------------------------------------------------------
(* Every geofence route driven by two owners *)

Tags == {"t1", "t2"}

OwnerCreateBodies ==
    {[EmptyCreate EXCEPT !.coordinates = Some(Square), !.type = Some("polygon"),
                         !.tags = Some(<<t>>)] : t \in Tags}

OwnerUpdateBodies ==
    {[EmptyUpdate EXCEPT !.name = Some("b")],
     [EmptyUpdate EXCEPT !.tags = Some(<<"t1", "t2">>)]}

\* The request a response of the geofence router answers.
GeofenceRequest(op, user, target) ==
    [op |-> op, user |-> user, target |-> target]

OwnersSide == <<pc, evalDoc, evalPt, evalOut, findIn, findOut,
                normDoc, normMod, normOut, users, inflight, client>>

OwnerCreate == \E user \in Users, body \in OwnerCreateBodies :
    /\ CreateGeofence(user, body)
    /\ req' = GeofenceRequest("create", user, 0)
    /\ UNCHANGED OwnersSide

OwnerGet == \E user \in Users, id \in 1..MaxGeofences :
    /\ GetGeofence(user, id)
    /\ req' = GeofenceRequest("get", user, id)
    /\ UNCHANGED OwnersSide

OwnerList == \E user \in Users :
    /\ ListGeofences(user)
    /\ req' = GeofenceRequest("list", user, 0)
    /\ UNCHANGED OwnersSide

OwnerTags == \E user \in Users :
    /\ ListTags(user)
    /\ req' = GeofenceRequest("tags", user, 0)
    /\ UNCHANGED OwnersSide

OwnerByTag == \E user \in Users, tag \in Tags :
    /\ ListByTag(user, tag)
    /\ req' = GeofenceRequest("byTag", user, 0)
    /\ UNCHANGED OwnersSide

OwnerUpdate == \E user \in Users, id \in 1..MaxGeofences,
                  body \in OwnerUpdateBodies :
    /\ \E same \in SameChoices(user, id, body) :
          UpdateGeofence(user, id, body, same)
    /\ req' = GeofenceRequest("update", user, id)
    /\ UNCHANGED OwnersSide

OwnerDelete == \E user \in Users, id \in 1..MaxGeofences :
    /\ DeleteGeofence(user, id)
    /\ req' = GeofenceRequest("delete", user, id)
    /\ UNCHANGED OwnersSide

OwnerCheck == \E user \in Users, body \in CheckBodies :
    /\ CheckPoint(user, body)
    /\ req' = GeofenceRequest("checkPoint", user, 0)
    /\ UNCHANGED OwnersSide

NextOwners ==
    \/ OwnerCreate \/ OwnerGet \/ OwnerList \/ OwnerTags \/ OwnerByTag
    \/ OwnerUpdate \/ OwnerDelete \/ OwnerCheck

SpecOwners == Init /\ [][NextOwners]_vars

-----------------------------------------------------------------------------
(* One call through the API client, the server answering as it may *)

ServerSide == <<store, resp, pc, evalDoc, evalPt, evalOut, findIn, findOut,
                normDoc, normMod, normOut, users, req, inflight>>

ClientCall == \E url \in Endpoints, location \in Locations, header \in BOOLEAN :
                apiCall(url, location, header) /\ UNCHANGED ServerSide

AnswerOk == onFulfilled /\ UNCHANGED ServerSide

AnswerUnauthorized == onRejected(401) /\ UNCHANGED ServerSide

AnswerError == \E status \in {0, 403, 500} :
                 onRejected(status) /\ UNCHANGED ServerSide

NextClient == ClientCall \/ AnswerOk \/ AnswerUnauthorized \/ AnswerError

SpecClient == Init /\ [][NextClient]_vars

-----------------------------------------------------------------------------
(* Properties *)

\* The shape fields the declared kind requires.
Sufficient(doc) ==
    CASE doc.type = "circle" -> IsSome(doc.center)
      [] doc.type = "polygon" -> Len(doc.coordinates) >= 3
      [] doc.type = "rectangle" -> Len(doc.coordinates) >= 2

WriteAccepted ==
    /\ resp.op \in {"create", "update"}
    /\ resp.status \in {200, 201}

\* C1: for a rectangle, containsPoint returns what the ray-casting test
\* returns on the rectangle's vertex list.
C1_RectangleAsPolygon ==
    (pc = "done" /\ evalDoc.type = "rectangle")
        => evalOut = pointInPolygon(evalPt.lat, evalPt.lng, evalDoc.coordinates)

\* C2: a create or update is accepted only if the resulting shape fields are
\* sufficient for the declared kind (an insufficient one is rejected).
C2_InsufficientRejected ==
    WriteAccepted => Sufficient(store[resp.id])

\* C3: in every stored geofence the geometry is of type Point exactly when
\* the kind is circle (and of type Polygon otherwise).
C3_GeometryTypeMatchesKind ==
    \A i \in 1..Len(store) :
        /\ (store[i].geometry.type = "Point") <=> (store[i].type = "circle")
        /\ store[i].type \in {"polygon", "rectangle"}
              => store[i].geometry.type = "Polygon"

\* C4: after an accepted create or update, the stored geometry is the one
\* the normaliser derives from the document's current kind, vertices and
\* center, never one left over from earlier shape fields.
C4_GeometryDerivedFromCurrentFields ==
    WriteAccepted =>
        LET doc == store[resp.id]
            fresh == preSave([doc EXCEPT !.geometry = DefaultGeometry],
                             ShapePaths).geometry
        IN  /\ doc.geometry.type = fresh.type
            /\ doc.geometry.coordinates = fresh.coordinates
            /\ fresh # DefaultGeometry

\* C5: for a circle with a center and a positive radius, containsPoint is
\* true exactly when the haversine distance from the point to the center
\* is at most the radius; the center itself is inside.
C5_CircleWithinRadius ==
    (/\ pc = "done"
     /\ evalDoc.type = "circle"
     /\ IsSome(evalDoc.center)
     /\ IsSome(evalDoc.radius)
     /\ Val(evalDoc.radius) > 0)
        => /\ evalOut <=>
                (HaversineMetres[<<evalPt.lat, evalPt.lng,
                                   Val(evalDoc.center).lat,
                                   Val(evalDoc.center).lng>>]
                    <= Val(evalDoc.radius))
           /\ evalPt = Val(evalDoc.center) => evalOut

\* C5 witness: a query point whose distance equals the radius is inside.
C5_Witness ==
    /\ pc = "done"
    /\ evalDoc.type = "circle"
    /\ evalDoc.center = Some(Coord(5, 5))
    /\ evalDoc.radius = Some(111195)
    /\ evalPt = Coord(6, 5)
    /\ evalOut

\* The indices of `list` whose geofence contains the point.
MatchingIndices(list, lat, lng) ==
    {j \in 1..Len(list) : containsPoint(list[j], lat, lng)}

\* The k-th smallest element of a set of indices.
KthIndex(S, k) ==
    CHOOSE j \in S : Cardinality({m \in S : m < j}) = k - 1

\* C6: the filter returns exactly the geofences of its input that contain
\* the point, in the input's relative order; the empty sequence when none.
C6_FilterKeepsMatchesInOrder ==
    pc = "done" =>
        LET M == MatchingIndices(findIn, evalPt.lat, evalPt.lng)
        IN  /\ Len(findOut) = Cardinality(M)
            /\ \A k \in 1..Len(findOut) : findOut[k] = findIn[KthIndex(M, k)]
            /\ M = {} => findOut = <<>>

\* C6 witness: of three geofences the first and the third match, and come
\* back in that order.
C6_Witness ==
    /\ pc = "done"
    /\ Len(findIn) = 3
    /\ Len(findOut) = 2
    /\ findOut[1] = findIn[1]
    /\ findOut[2] = findIn[3]
    /\ findOut[1] # findOut[2]

\* C7: a check-point query with numeric latitude in [-90, 90] and longitude
\* in [-180, 180] is answered with a success response.
C7_CheckPointSucceeds ==
    (/\ resp.op = "checkPoint"
     /\ IsSome(resp.lat) /\ IsSome(resp.lng)
     /\ Val(resp.lat) >= -90 /\ Val(resp.lat) <= 90
     /\ Val(resp.lng) >= -180 /\ Val(resp.lng) <= 180)
        => resp.status = 200

\* Shape data that is incomplete for the declared kind.
Malformed(doc) ==
    \/ doc.type = "polygon" /\ Len(doc.coordinates) < 3
    \/ doc.type = "circle" /\ (~IsSome(doc.center) \/ ~IsSome(doc.radius))
    \/ doc.type = "rectangle" /\ Len(doc.coordinates) < 2

\* C8: containsPoint returns false, and returns a boolean, for a polygon
\* with fewer than 3 vertices, a circle without center or without radius
\* and any other incomplete shape data.
C8_MalformedIsNotContained ==
    pc = "done" =>
        /\ evalOut \in BOOLEAN
        /\ Malformed(evalDoc) => evalOut = FALSE

\* C8 witness: a circle without center was evaluated at a point that a
\* polygon over the same vertices would contain.
C8_Witness ==
    /\ pc = "done"
    /\ evalDoc.type = "circle"
    /\ evalDoc.center = None
    /\ evalDoc.coordinates = Square
    /\ evalPt = Coord(5, 5)
    /\ evalOut = FALSE

\* C9: normalising a circle that has a center yields Point [lng, lat]; the
\* radius has no influence on the geometry.
C9_CirclePoint ==
    (/\ pc = "done"
     /\ normMod # {}
     /\ normDoc.type = "circle"
     /\ IsSome(normDoc.center))
        => /\ normOut.geometry.type = "Point"
           /\ normOut.geometry.coordinates =
                 <<Val(normDoc.center).lng, Val(normDoc.center).lat>>
           /\ \A r \in MaybeRadii :
                 preSave([normDoc EXCEPT !.radius = r], normMod).geometry
                     = normOut.geometry

\* C9 witness: a circle whose center has different latitude and longitude
\* was normalised.
C9_Witness ==
    /\ pc = "done"
    /\ normMod = {"center"}
    /\ normDoc.type = "circle"
    /\ normDoc.center = Some(Coord(0, 5))
    /\ normOut.geometry.coordinates = <<5, 0>>

\* C10: normalising a polygon with n >= 3 vertices or a rectangle with
\* n >= 2 vertices yields a Polygon with one ring: the n vertices as
\* [lng, lat] in order, followed by a copy of the first pair exactly when
\* the first and last input pairs differ.
C10_RingIsVerticesPlusClosure ==
    (/\ pc = "done"
     /\ normMod # {}
     /\ \/ normDoc.type = "polygon" /\ Len(normDoc.coordinates) >= 3
        \/ normDoc.type = "rectangle" /\ Len(normDoc.coordinates) >= 2)
        => LET v == normDoc.coordinates
               n == Len(v)
               open == v[1] # v[n]
           IN  /\ normOut.geometry.type = "Polygon"
               /\ Len(normOut.geometry.coordinates) = 1
               /\ LET ring == normOut.geometry.coordinates[1]
                  IN  /\ Len(ring) = IF open THEN n + 1 ELSE n
                      /\ \A i \in 1..n : ring[i] = <<v[i].lng, v[i].lat>>
                      /\ open => ring[n + 1] = <<v[1].lng, v[1].lat>>

\* C10 witness: an open triangle whose first and last vertices differ in
\* latitude only got its first pair appended.
C10_Witness ==
    /\ pc = "done"
    /\ normMod = {"coordinates"}
    /\ normDoc.type = "polygon"
    /\ normDoc.coordinates = Triangle
    /\ Len(normOut.geometry.coordinates[1]) = 4

\* C11: in every stored geofence whose geometry is a Polygon, the ring is
\* closed: its first pair equals its last.
C11_StoredRingClosed ==
    \A i \in 1..Len(store) :
        store[i].geometry.type = "Polygon" =>
            LET ring == store[i].geometry.coordinates[1]
            IN  ring[1] = ring[Len(ring)]

\* C11 witness: a stored geofence whose vertex list is open carries a ring
\* one pair longer than the list.
C11_Witness ==
    \E i \in 1..Len(store) :
        /\ store[i].geometry.type = "Polygon"
        /\ store[i].coordinates = Square
        /\ Len(store[i].geometry.coordinates[1]) = Len(Square) + 1

\* A vertex list the hook accepts for the document's kind.
AcceptedRing(doc) ==
    \/ doc.type = "polygon" /\ Len(doc.coordinates) >= 3
    \/ doc.type = "rectangle" /\ Len(doc.coordinates) >= 2

\* The [lng, lat] pairs of a ring read back as a vertex list.
RingAsVertices(ring) ==
    [i \in 1..Len(ring) |-> Coord(ring[i][2], ring[i][1])]

\* C12: for every accepted vertex list, one normalisation yields a ring
\* whose first and last pairs are equal, and normalising that ring again
\* (as the vertex list) yields the same ring, nothing appended.
C12_ClosureIdempotent ==
    (pc = "done" /\ normMod # {} /\ AcceptedRing(normDoc)) =>
        LET ring == normOut.geometry.coordinates[1]
            again == preSave([normDoc EXCEPT
                                 !.coordinates = RingAsVertices(ring)],
                             {"coordinates"})
        IN  /\ ring[1] = ring[Len(ring)]
            /\ again.geometry.type = "Polygon"
            /\ again.geometry.coordinates = << ring >>

\* C12 witness: an open vertex list was normalised and got its closing pair.
C12_Witness ==
    /\ pc = "done"
    /\ normMod # {}
    /\ normDoc.type = "rectangle"
    /\ normDoc.coordinates = TwoCorners
    /\ normOut.geometry.coordinates = << << <<0, 0>>, <<10, 10>>, <<0, 0>> >> >>

\* C13: a create is accepted (and its record stored) only if the name and
\* the coordinates are non-empty, an effective kind of polygon has at least
\* 3 coordinates, and a circle has both center and radius.
C13_CreateValidated ==
    (resp.op = "create" /\ resp.status = 201) =>
        LET doc == store[resp.id]
        IN  /\ doc.name # ""
            /\ Len(doc.coordinates) > 0
            /\ doc.type = "polygon" => Len(doc.coordinates) >= 3
            /\ doc.type = "circle" => IsSome(doc.center) /\ IsSome(doc.radius)

\* C14: every stored circle that has a radius has one strictly greater
\* than 0 (a write setting it to 0 is rejected).
C14_CircleRadiusPositive ==
    \A i \in 1..Len(store) :
        (store[i].type = "circle" /\ IsSome(store[i].radius))
            => Val(store[i].radius) > 0

C16_OwnerFixed ==
    [][/\ \A i \in 1..Len(store) :
             i <= Len(store') /\ store'[i].createdBy = store[i].createdBy
       /\ (resp'.op = "create" /\ resp'.status = 201
              /\ Len(store') = Len(store) + 1)
             => store'[Len(store')].createdBy = resp'.user]_vars

\* C16 witness: a user other than the owner sent an update naming the
\* geofence, and the geofence still belongs to its creator.
C16_Witness ==
    /\ resp.op = "update"
    /\ resp.status = 404
    /\ \E i \in 1..Len(store) : store[i].createdBy # resp.user

\* Containment as the evaluator's contract states it: a circle by distance,
\* a polygon and a rectangle alike by the ray-casting test.
Contained(doc, lat, lng) ==
    CASE doc.type = "circle" ->
            /\ IsSome(doc.center) /\ IsSome(doc.radius)
            /\ calculateDistance(lat, lng, Val(doc.center).lat,
                                 Val(doc.center).lng) <= Val(doc.radius)
      [] doc.type \in {"polygon", "rectangle"} ->
            /\ Len(doc.coordinates) >= 3
            /\ pointInPolygon(lat, lng, doc.coordinates)

\* The indices of the caller's active geofences selected by `inside`.
CallerMatches(inside(_, _, _)) ==
    {j \in 1..Len(store) :
        /\ store[j].createdBy = resp.user
        /\ store[j].isActive
        /\ inside(store[j], Val(resp.lat), Val(resp.lng))}

\* The fields of a check-point response agree with the index set M.
ResponseLists(M) ==
    /\ Len(resp.geofences) = Cardinality(M)
    /\ \A k \in 1..Len(resp.geofences) :
          resp.geofences[k] = store[KthIndex(M, k)]
    /\ resp.count = Len(resp.geofences)
    /\ resp.isInside <=> resp.count > 0
    /\ \A k \in 1..Len(resp.geofences) : resp.geofences[k].isActive

\* C17: in a successful check-point response, geofences is exactly the
\* list of the caller's active geofences that contain the echoed point,
\* count is its length and isInside says whether it is non-empty.
C17_ResponseListsContaining ==
    (resp.op = "checkPoint" /\ resp.status = 200)
        => ResponseLists(CallerMatches(Contained))

\* The same response measured against what containsPoint returns.
CheckResponseMatchesEvaluator ==
    (resp.op = "checkPoint" /\ resp.status = 200)
        => ResponseLists(CallerMatches(containsPoint))

\* C18: a step that changes none of a stored geofence's kind, vertices,
\* center and radius leaves that geofence's geometry unchanged.
C18_GeometryKeptWithoutShapeChange ==
    [][\A i \in 1..Len(store) :
          (/\ i <= Len(store')
           /\ store'[i].type = store[i].type
           /\ store'[i].coordinates = store[i].coordinates
           /\ store'[i].center = store[i].center
           /\ store'[i].radius = store[i].radius)
             => /\ store'[i].geometry.type = store[i].geometry.type
                /\ store'[i].geometry.coordinates
                      = store[i].geometry.coordinates]_vars

\* C18 witness: a geofence whose geometry predates its current kind was
\* soft-deleted and still carries that geometry.
C18_Witness ==
    /\ resp.op = "delete"
    /\ resp.status = 200
    /\ \E i \in 1..Len(store) :
          /\ store[i].createdBy = resp.user
          /\ ~store[i].isActive
          /\ store[i].type = "circle"
          /\ store[i].geometry.type = "Polygon"

\* C19: when the hook runs on shape fields insufficient for the kind, the
\* geometry after the call is the geometry before it, and the document is
\* not left with an empty geometry.
C19_InsufficientLeavesNoEmptyGeometry ==
    (pc = "done" /\ normMod # {} /\ ~Sufficient(normDoc)) =>
        /\ normOut.geometry.type = normDoc.geometry.type
        /\ normOut.geometry.coordinates = normDoc.geometry.coordinates
        /\ normOut.geometry.coordinates # <<>>

\* C20: for a polygon-kind geofence whose vertices form a convex polygon,
\* a point strictly inside the polygon is contained and a point strictly
\* outside the polygon's bounding box is not; with vertices (0,0), (0,10),
\* (10,10), (10,0) the point (5,5) is contained and (20,20) is not.
StripClosure(cs) ==
    IF Len(cs) >= 2 /\ cs[1] = cs[Len(cs)] THEN SubSeq(cs, 1, Len(cs) - 1) ELSE cs

NextIndex(i, n) == IF i = n THEN 1 ELSE i + 1

Cross(a, b, p) ==
    (b.lat - a.lat) * (p.lng - a.lng) - (b.lng - a.lng) * (p.lat - a.lat)

StrictlyConvex(vs) ==
    /\ Len(vs) >= 3
    /\ LET n == Len(vs)
           others(i) == (1..n) \ {i, NextIndex(i, n)}
       IN  \/ \A i \in 1..n : \A k \in others(i) :
                  Cross(vs[i], vs[NextIndex(i, n)], vs[k]) > 0
           \/ \A i \in 1..n : \A k \in others(i) :
                  Cross(vs[i], vs[NextIndex(i, n)], vs[k]) < 0

StrictlyInterior(vs, p) ==
    LET n == Len(vs)
    IN  \/ \A i \in 1..n : Cross(vs[i], vs[NextIndex(i, n)], p) > 0
        \/ \A i \in 1..n : Cross(vs[i], vs[NextIndex(i, n)], p) < 0

OutsideBoundingBox(vs, p) ==
    \/ \A i \in 1..Len(vs) : p.lat < vs[i].lat
    \/ \A i \in 1..Len(vs) : p.lat > vs[i].lat
    \/ \A i \in 1..Len(vs) : p.lng < vs[i].lng
    \/ \A i \in 1..Len(vs) : p.lng > vs[i].lng

C20_ConvexPolygonContainment ==
    (/\ pc = "done"
     /\ evalDoc.type = "polygon"
     /\ StrictlyConvex(StripClosure(evalDoc.coordinates))) =>
        LET vs == StripClosure(evalDoc.coordinates)
        IN  /\ StrictlyInterior(vs, evalPt) => evalOut
            /\ OutsideBoundingBox(vs, evalPt) => ~evalOut
            /\ (vs = Square /\ evalPt = Coord(5, 5)) => evalOut
            /\ (vs = Square /\ evalPt = Coord(20, 20)) => ~evalOut

C20_Witness ==
    /\ pc = "done"
    /\ evalDoc.type = "polygon"
    /\ evalDoc.coordinates = Square
    /\ StrictlyConvex(Square)
    /\ StrictlyInterior(Square, evalPt)
    /\ evalPt = Coord(5, 5)
    /\ evalOut

\* C21 (as stated): for a simple polygon with at least 3 vertices, every
\* vertex of the polygon is contained.
IsVertex(vs, p) == \E i \in 1..Len(vs) : vs[i] = p

C21_EveryVertexContained ==
    (/\ pc = "done"
     /\ evalDoc.type = "polygon"
     /\ StrictlyConvex(StripClosure(evalDoc.coordinates))
     /\ IsVertex(StripClosure(evalDoc.coordinates), evalPt)) => evalOut

RECURSIVE SumLat(_), SumLng(_)
SumLat(vs) == IF vs = <<>> THEN 0 ELSE vs[1].lat + SumLat(Tail(vs))
SumLng(vs) == IF vs = <<>> THEN 0 ELSE vs[1].lng + SumLng(Tail(vs))

IsCentroid(vs, p) ==
    /\ Len(vs) * p.lat = SumLat(vs)
    /\ Len(vs) * p.lng = SumLng(vs)

TopVertex(vs, p) ==
    /\ IsVertex(vs, p)
    /\ \A i \in 1..Len(vs) : vs[i].lat <= p.lat

\* C21 (amended): for a convex polygon with at least 3 vertices the centroid
\* (mean of the vertices) is contained, while a vertex of greatest latitude
\* is not contained.
C21_CentroidContained ==
    (/\ pc = "done"
     /\ evalDoc.type = "polygon"
     /\ StrictlyConvex(StripClosure(evalDoc.coordinates))) =>
        LET vs == StripClosure(evalDoc.coordinates)
        IN  /\ IsCentroid(vs, evalPt) => evalOut
            /\ TopVertex(vs, evalPt) => ~evalOut

C21_Witness ==
    /\ pc = "done"
    /\ evalDoc.type = "polygon"
    /\ evalDoc.coordinates = SkewTriangle
    /\ StrictlyConvex(SkewTriangle)
    /\ IsCentroid(SkewTriangle, evalPt)
    /\ evalOut

\* C22: only an admin changes a user's role or active status: a user
\* management request (update, delete, activate) of a caller who is not an
\* admin leaves every user's role and isActive unchanged, and when it asks
\* for such a change it is refused.
AsksPrivilegeChange(r) ==
    \/ r.op \in {"deleteUser", "activateUser"}
    \/ r.op = "updateUser" /\ (IsSome(r.body.role) \/ IsSome(r.body.isActive))

CallerIsAdmin(r) == r.user \in DOMAIN users /\ users[r.user].role = "admin"

CrossingEdge(p, a, b) ==
    /\ \/ a.lat > p.lat /\ ~(b.lat > p.lat)
       \/ b.lat > p.lat /\ ~(a.lat > p.lat)
    /\ LET d == b.lat - a.lat
       IN  (p.lng - a.lng) * d * d < (b.lng - a.lng) * (p.lat - a.lat) * d

CrossingEdges(p, vs) ==
    {i \in 1..Len(vs) :
        CrossingEdge(p, vs[i], vs[IF i = 1 THEN Len(vs) ELSE i - 1])}

C23_ParityOfCrossings ==
    (/\ pc = "done"
     /\ evalDoc.type = "polygon"
     /\ Len(evalDoc.coordinates) >= 3) =>
        (evalOut <=> Cardinality(CrossingEdges(evalPt, evalDoc.coordinates)) % 2 = 1)

C23_Witness ==
    /\ pc = "done"
    /\ evalDoc.type = "polygon"
    /\ evalDoc.coordinates = EastSquare
    /\ Cardinality(CrossingEdges(evalPt, EastSquare)) = 2
    /\ ~evalOut

\* C24: polygon containment does not depend on whether the vertex list is
\* explicitly closed: for a list of at least 3 vertices, containsPoint gives
\* the same result on the list and on the list with a copy of its first
\* vertex appended.
WithClosure(doc) ==
    [doc EXCEPT !.coordinates = Append(doc.coordinates, doc.coordinates[1])]

C24_ClosureInsensitive ==
    (/\ pc = "done"
     /\ evalDoc.type = "polygon"
     /\ Len(evalDoc.coordinates) >= 3) =>
        (evalOut <=> containsPoint(WithClosure(evalDoc), evalPt.lat, evalPt.lng))

C24_Witness ==
    /\ pc = "done"
    /\ evalDoc.type = "polygon"
    /\ evalDoc.coordinates = RectCorners
    /\ evalPt = Coord(5, 5)
    /\ evalOut
    /\ containsPoint(WithClosure(evalDoc), evalPt.lat, evalPt.lng)

\* C25: for a circle with a center and radius 0, containsPoint returns true
\* for the query point equal to the center and false for every other point.
C25_ZeroRadiusContainsOnlyCenter ==
    (/\ pc = "done"
     /\ evalDoc.type = "circle"
     /\ IsSome(evalDoc.center)
     /\ evalDoc.radius = Some(0)) =>
        (evalOut <=> evalPt = Val(evalDoc.center))

\* C26: when update requests for one geofence interleave their load and
\* save steps, the record stored once they have all been answered has the
\* geometry the normaliser derives from its stored kind, vertices and center.
C26_InterleavedUpdatesKeepGeometry ==
    (\A s \in Slots : inflight[s] = None) =>
        \A i \in 1..Len(store) :
            LET fresh == preSave([store[i] EXCEPT !.geometry = DefaultGeometry],
                                 ShapePaths).geometry
            IN  /\ store[i].geometry.type = fresh.type
                /\ store[i].geometry.coordinates = fresh.coordinates

\* C27: deletion is terminal: the geofence a delete request has just set
\* inactive is left as it is, flag and every other field, by the request
\* that follows, whatever that request is.
C27_DeletionTerminal ==
    [][(resp.op = "delete" /\ resp.status = 200) =>
          \A i \in 1..Len(store) :
              (~store[i].isActive /\ store[i].createdBy = resp.user) =>
                  /\ i <= Len(store')
                  /\ store'[i] = store[i]]_vars

\* C28: geofences are isolated per owner: a request of user A (list, get by
\* id, tags, by-tag, update, delete, check-point) is answered with A's own
\* geofences and tags only, changes no geofence owned by another user, and
\* is answered 404 when it names another user's geofence.
OwnerOps == {"list", "get", "tags", "byTag", "update", "delete", "checkPoint"}

TagsOwnedBy(user) ==
    {t \in Tags : \E i \in 1..Len(store) :
        /\ store[i].createdBy = user
        /\ \E j \in 1..Len(store[i].tags) : store[i].tags[j] = t}

C28_OwnerIsolation ==
    [][req'.op \in OwnerOps =>
          /\ resp'.user = req'.user
          /\ \A k \in 1..Len(resp'.geofences) :
                resp'.geofences[k].createdBy = req'.user
          /\ resp'.id # 0 => store'[resp'.id].createdBy = req'.user
          /\ resp'.tags \subseteq TagsOwnedBy(req'.user)
          /\ \A i \in 1..Len(store) :
                store[i].createdBy # req'.user =>
                    i <= Len(store') /\ store'[i] = store[i]
          /\ (/\ req'.op \in {"get", "update", "delete"}
              /\ req'.target \in 1..Len(store)
              /\ store[req'.target].createdBy # req'.user) =>
                    resp'.status = 404]_vars

C28_Witness ==
    /\ req.op = "update" /\ req.user = "u2" /\ req.target = 1
    /\ Len(store) >= 1 /\ store[1].createdBy = "u1"
    /\ resp.op = "update" /\ resp.status = 404

\* C29: the client's 401 handling terminates: for one call it sends at most
\* one token-refresh request and the caller's request at most twice, and
\* when the call is rejected after a refresh that failed, the Authorization
\* header and the stored auth state are cleared and the page is the login
\* page.
C29_RefreshAtMostOnce ==
    /\ client.refreshes <= 1
    /\ client.sends <= 2
    /\ (client.outcome = "rejected" /\ client.refreshes >= 1 /\ client.sends = 1) =>
          /\ ~client.authHeader
          /\ ~client.authStorage
          /\ client.location = "/login"

\* C30: a deactivated user cannot act: while a user's isActive is false, a
\* request of that user to a route behind authenticateToken is answered 401
\* and changes no user and no geofence, and a token refresh with that
\* user's refresh token is answered 401 and sets no token cookies.
ProtectedOps ==
    {"updateUser", "deleteUser", "activateUser", "updateProfile",
     "createGeofence", "deleteGeofence"}

C30_DeactivatedUserRefused ==
    [][(/\ req'.op \in ProtectedOps \cup {"refresh"}
        /\ req'.user \in DOMAIN users
        /\ ~users[req'.user].isActive) =>
            /\ resp'.status = 401
            /\ users' = users
            /\ store' = store
            /\ req'.op = "refresh" => resp'.cookies = None]_vars

C30_Witness ==
    /\ req.op = "refresh" /\ req.user = "u2" /\ req.refreshToken = "refresh"
    /\ ~users["u2"].isActive
    /\ resp.op = "refresh" /\ resp.status = 401 /\ resp.cookies = None

====
